---- MODULE Spec2Model ----
(***************************************************************************)
(* The Autoscaler trait reconciler of                                      *)
(* pkg/controller/v1alpha1/autoscaler/types.go as a state machine.         *)
(*                                                                         *)
(* The cluster store holds the owner-reference list of every resource,    *)
(* the traits, their conditions, the emitted events and the backend       *)
(* (KEDA) scaled object of every trait.  One Reconcile invocation is a    *)
(* sequence of steps (Get, LocateParentAppConfig, FetchWorkload,          *)
(* FetchWorkloadChildResources, one loop iteration per resource,          *)
(* scaleByKEDA, return); between two steps other clients of the store may *)
(* write.                                                                  *)
(***************************************************************************)
EXTENDS Integers, Sequences, FiniteSets, TLC

\* ------------------------------------------------------------------ bounds

\* Invocations started by a watch event (requeued retries come on top).
MaxRuns == 2
\* Steps of the environment: calls to the store or the backend that fail,
\* writes of other clients to owner-reference lists, changes of the child
\* resources of the workload, deletions of traits.
MaxEnvSteps == 1

\* ------------------------------------------------------- program constants

\* ReconcileWaitResult = reconcile.Result{RequeueAfter: 30 * time.Second}
ReconcileWaitSeconds == 30
\* ctrl.NewControllerManagedBy(mgr).For(..).Complete(r) sets no options:
\* the controller runs its default of one worker.
MaxConcurrentReconciles == 1

\* ---------------------------------------------------------------- objects

Traits == {"t1", "t2"}
Workload == "w"
Children == {"c1", "c2", "c3"}
Resources == Children \cup {Workload}

ChildKind(r) ==
    CASE r = "c1" -> "Deployment"
      [] r = "c2" -> "StatefulSet"
      [] OTHER    -> "Service"

WorkloadKinds == {"Deployment", "ContainerizedWorkload"}

\* A *bool of the Go code: a pointer to true or to false, or the nil pointer.
True == "true"
False == "false"
Nil == "nil"

\* metav1.OwnerReference
OwnerRef(api, kind, name, uid, ctl, blk) ==
    [APIVersion |-> api, Kind |-> kind, Name |-> name, UID |-> uid,
     Controller |-> ctl, BlockOwnerDeletion |-> blk]

\* The reference a parent other than a trait holds on a resource.
AppRef(ctl) ==
    OwnerRef("core.oam.dev/v1alpha2", "ApplicationConfiguration", "app",
             "uid-app", ctl, True)

TraitUID(t) == "uid-" \o t

\* v1alpha1.TargetWorkload{APIVersion, Kind, Name}; the zero value is unset.
NoTarget == [APIVersion |-> "", Kind |-> "", Name |-> ""]

APIVersionOf(kind) ==
    CASE kind \in {"Deployment", "StatefulSet"} -> "apps/v1"
      [] kind = "Service"                       -> "v1"
      [] OTHER                                  -> "core.oam.dev/v1alpha2"

\* A target workload a user wrote into the trait's spec.
UserTarget == [APIVersion |-> "apps/v1", Kind |-> "Deployment", Name |-> "user"]

\* --------------------------------------------------------------- triggers

\* A string field of a trigger is the sequence of its characters, the empty
\* sequence for a field that is absent.
Digits == {"0", "1", "2", "3", "4", "5", "6", "7", "8", "9"}

DigitValue(c) ==
    CASE c = "0" -> 0 [] c = "1" -> 1 [] c = "2" -> 2 [] c = "3" -> 3
      [] c = "4" -> 4 [] c = "5" -> 5 [] c = "6" -> 6 [] c = "7" -> 7
      [] c = "8" -> 8 [] c = "9" -> 9

\* A trigger of type cron: startAt, duration, and replicas (0 for absent).
CronTrigger(startAt, duration, replicas) ==
    [Type |-> "cron", StartAt |-> startAt, Duration |-> duration,
     Replicas |-> replicas]

\* A resource-metric trigger with its target type and threshold set.
CpuTrigger ==
    [Type |-> "cpu", StartAt |-> <<>>, Duration |-> <<>>, Replicas |-> 0]

\* The cron trigger of the end-to-end scenario: 09:00, 2 hours, 5 replicas.
ValidCron == CronTrigger(<<"0", "9", ":", "0", "0">>, <<"2">>, 5)

\* The cron trigger 12:01 for 13 hours.
LateCron == CronTrigger(<<"1", "2", ":", "0", "1">>, <<"1", "3">>, 5)

\* The values of startAt, duration and replicas a user may write.
StartAts ==
    {<<>>, <<"n", "o", "o", "n">>, <<"0", "9", ":", "0", "0">>,
     <<"1", "2", ":", "0", "1">>, <<"2", "4", ":", "0", "0">>}
Durations == {<<>>, <<"x">>, <<"2">>, <<"1", "3">>, <<"1", "4">>, <<"1", "5">>}
ReplicaCounts == {0, 5}

\* (the example 12:01 stands between backquotes in the source)
SpecWarningStartAtTimeFormat ==
    "startAt is not in the right format, which should be like 12:01"
SpecWarningStartAtTimeRequired == "spec.triggers.condition.startAt: Required value"
SpecWarningDurationTimeRequired == "spec.triggers.condition.duration: Required value"
SpecWarningReplicasRequired == "spec.triggers.condition.replicas: Required value"
SpecWarningDurationTimeNotInRightFormat ==
    "spec.triggers.condition.duration: not in the right format"
SpecWarningSumOfStartAndDurationMoreThan24Hour ==
    "the sum of the start hour and the duration hour has to be less than 24 hours."

IsNumber(s) == s # <<>> /\ \A k \in 1..Len(s) : s[k] \in Digits

RECURSIVE Atoi(_)
Atoi(s) ==
    IF s = <<>> THEN 0
    ELSE 10 * Atoi(SubSeq(s, 1, Len(s) - 1)) + DigitValue(s[Len(s)])

\* startAt parses as HH:MM, an hour of the day and a minute of the hour.
ParsesAsHHMM(s) ==
    /\ Len(s) = 5
    /\ s[3] = ":"
    /\ IsNumber(SubSeq(s, 1, 2))
    /\ IsNumber(SubSeq(s, 4, 5))
    /\ Atoi(SubSeq(s, 1, 2)) < 24
    /\ Atoi(SubSeq(s, 4, 5)) < 60

StartHour(s) == Atoi(SubSeq(s, 1, 2))

\* duration parses as a count of hours.
ParsesAsHours(s) == IsNumber(s)

DurationHour(s) == Atoi(s)

\* SumTooLarge as a check that lets a sum of exactly 24 hours pass.
SumTooLargeOver24(startHour, durationHour) == startHour + durationHour > 24

\* The schedule must end within the day it starts.
SumTooLarge(startHour, durationHour) == startHour + durationHour >= 24

\* The warnings the checks of a cron trigger give, one per failed check.
CronWarnings(c) ==
    (IF c.StartAt = <<>> THEN {SpecWarningStartAtTimeRequired}
     ELSE IF ~ParsesAsHHMM(c.StartAt) THEN {SpecWarningStartAtTimeFormat}
     ELSE {})
    \cup
    (IF c.Duration = <<>> THEN {SpecWarningDurationTimeRequired}
     ELSE IF ~ParsesAsHours(c.Duration)
          THEN {SpecWarningDurationTimeNotInRightFormat}
     ELSE {})
    \cup
    (IF c.Replicas = 0 THEN {SpecWarningReplicasRequired} ELSE {})
    \cup
    (IF /\ ParsesAsHHMM(c.StartAt)
        /\ ParsesAsHours(c.Duration)
        /\ SumTooLarge(StartHour(c.StartAt), DurationHour(c.Duration))
     THEN {SpecWarningSumOfStartAndDurationMoreThan24Hour}
     ELSE {})

\* The validation is dispatched on the type of the trigger.
TriggerWarnings(tr) == IF tr.Type = "cron" THEN CronWarnings(tr) ELSE {}

Valid(tr) == TriggerWarnings(tr) = {}

\* The triggers that are delegated: those no check excluded, in their order.
Validated(l) == SelectSeq(l, Valid)

\* ------------------------------------------------------------------ state

VARIABLES
    ownerRefs,      \* store: resource -> its metadata.ownerReferences
    workloadKind,   \* store: the kind of the workload the traits reference
    children,       \* store: the child resources of the workload, in the
                    \* order FetchWorkloadChildResources returns them
    traitExists,    \* store: the traits that have not been deleted
    specTarget,     \* store: trait -> its persisted spec.targetWorkload
    triggers,       \* store: trait -> its spec.triggers, as the user wrote them
    conditions,     \* store: trait -> the type of the condition patched on it
    scaledObject,   \* backend: trait -> the scale target of its object
    pc,             \* trait -> the position of its invocation
    eventObj,       \* invocation: the object events are recorded to
    resources,      \* invocation: the resources as fetched, workload last
    read,           \* invocation: resource -> the owner references read
    idx,            \* invocation: the loop's position in resources
    targetWorkloadSetFlag,
    scaler,         \* invocation: the in-memory scaler.Spec.TargetWorkload
    reported,       \* invocation: the conditions, events and backend writes
                    \* it made
    ret,            \* trait -> what the last invocation that returned gave
                    \* the controller, and until the worker is free the
                    \* return statement it left by
    applied,        \* history: trait -> resource -> the patches of the
                    \* resource by invocations of the trait that succeeded
    runs, envSteps  \* what the bounds count

vars == <<ownerRefs, workloadKind, children, traitExists, specTarget, triggers,
          conditions, scaledObject, pc, eventObj, resources, read, idx,
          targetWorkloadSetFlag, scaler, reported, ret, applied, runs,
          envSteps>>

store == <<ownerRefs, workloadKind, children, traitExists, specTarget,
           triggers, conditions, scaledObject>>

locals == <<eventObj, resources, read, idx, targetWorkloadSetFlag, scaler,
            reported>>

\* --------------------------------------------------------------- helpers

GetKind(r) == IF r = Workload THEN workloadKind ELSE ChildKind(r)

\* The (apiVersion, kind, name) of a resource, as lines 164-168 and 175-179
\* build it.
TargetOf(r) ==
    [APIVersion |-> APIVersionOf(GetKind(r)), Kind |-> GetKind(r), Name |-> r]

\* The lists of child resources the workload may have, in the order the
\* discovery returns them: no child, a child that is not scalable, the two
\* scalable children in either order, a scalable child behind one that is not.
ChildLists ==
    {<<>>, <<"c3">>, <<"c1", "c2">>, <<"c2", "c1">>, <<"c3", "c1">>}

Range(l) == {l[k] : k \in 1..Len(l)}

NoRead == [r \in Resources |-> <<>>]

\* No invocation is between its first step and its return.
InFlight == {t \in Traits : pc[t] # "idle"}

NoResult == [RequeueAfter |-> 0, Err |-> FALSE, Exit |-> "none"]
Result(after, err, exit) == [RequeueAfter |-> after, Err |-> err, Exit |-> exit]

\* ------------------------------------------------- the adoption of a resource

\* ownerReference with its controller flag false.
ownerReferenceNotController(t) ==
    OwnerRef("standard.oam.dev/v1alpha1", "Autoscaler", t, TraitUID(t), False, True)

\* Lines 127-134: the owner reference of the trait.
ownerReference(t) ==
    OwnerRef("standard.oam.dev/v1alpha1", "Autoscaler", t, TraitUID(t), True, True)

\* Line 151 dereferences r.Controller of every reference: a nil pointer panics.
Panics(refs) == \E k \in 1..Len(refs) : refs[k].Controller = Nil

\* Demote as a loop that skips the demotion.
DemoteNone(refs) == refs

\* Lines 150-154: every controller reference is demoted, none is removed.
Demote(refs) ==
    [k \in 1..Len(refs) |->
        IF refs[k].Controller = True
        THEN [refs[k] EXCEPT !.Controller = False]
        ELSE refs[k]]

\* NewRefs as a loop that appends to the list as read, demoting nothing.
NewRefsAsRead(refs, t) == Append(refs, ownerReference(t))

\* NewRefs as a loop that appends the reference of the trait only to a list
\* that holds none yet, and makes the one it finds the controller again.
NewRefsOnce(refs, t) ==
    IF \E k \in 1..Len(refs) : refs[k].UID = TraitUID(t)
    THEN [k \in 1..Len(refs) |->
            IF refs[k].UID = TraitUID(t)
            THEN [refs[k] EXCEPT !.Controller = True]
            ELSE Demote(refs)[k]]
    ELSE Append(Demote(refs), ownerReference(t))

\* Lines 149-156: the list the loop sets on the resource it read.
NewRefs(refs, t) == Append(Demote(refs), ownerReference(t))

\* Line 148 and 157, client.MergeFrom(base): the JSON merge patch between the
\* object as read and as modified.  A list that differs is sent whole; the
\* patch carries no resourceVersion (that is MergeFromWithOptimisticLock).
NoPatch == [changed |-> FALSE, ownerReferences |-> <<>>]
MergeFrom(base, modified) ==
    IF modified = base THEN NoPatch
    ELSE [changed |-> TRUE, ownerReferences |-> modified]

\* The store applying a merge patch: the list it sends replaces the stored one.
ApplyPatch(stored, patch) ==
    IF patch.changed THEN patch.ownerReferences ELSE stored

\* Line 163: the kinds the autoscaler scales.
Scalable(r) == GetKind(r) \in {"Deployment", "StatefulSet"}

\* TargetAfter without the flag: every scalable resource replaces the target.
TargetAfterLastMatch(t, r) == IF Scalable(r) THEN TargetOf(r) ELSE scaler[t]

\* Lines 163-170: the target after the iteration over r.
TargetAfter(t, r) ==
    IF ~targetWorkloadSetFlag[t] /\ Scalable(r) THEN TargetOf(r) ELSE scaler[t]

FlagAfter(t, r) == targetWorkloadSetFlag[t] \/ Scalable(r)

\* LoopDone as a loop that ends after the resource at position 1.
LoopDoneAfterFirst(t) == TRUE

\* Line 147, for _, res := range resources: the iteration at idx is the last.
LoopDone(t) == idx[t] = Len(resources[t])

\* DefaultTarget as a lookup that keeps the target the backend object of the
\* trait is bound to.
DefaultTargetKeepsBound(t) ==
    IF scaledObject[t].exists THEN scaledObject[t].scaleTarget
    ELSE IF Len(resources[t]) = 1 /\ ~targetWorkloadSetFlag[t]
         THEN TargetOf(Workload)
         ELSE scaler[t]

\* Lines 173-180: the workload is the default target of a list that holds
\* the workload alone.
DefaultTarget(t) ==
    IF Len(resources[t]) = 1 /\ ~targetWorkloadSetFlag[t]
    THEN TargetOf(Workload)
    ELSE scaler[t]

\* Event as a recorder that drops what it is given.
EventDropped(obj, reason) == <<"dropped", obj, reason>>

\* r.record.Event(obj, event.Warning(reason, err))
Event(obj, reason) == <<"event", obj, reason>>

SpecWarningTargetWorkloadNotSet == "Spec.targetWorkload is not set"

\* A failure path that returns without patching the condition.
PatchConditionSkipped(t, reason) == UNCHANGED <<conditions, reported>>

\* PatchCondition as a patch of the condition of every trait.
PatchConditionOnAll(t, reason) ==
    /\ conditions' = [u \in DOMAIN conditions |-> "ReconcileError"]
    /\ reported' = [reported EXCEPT ![t] = @ \cup {<<"condition", t, reason>>}]

\* util.PatchCondition(ctx, r, &scaler, cpv1alpha1.ReconcileError(..))
PatchCondition(t, reason) ==
    /\ conditions' = [conditions EXCEPT ![t] = "ReconcileError"]
    /\ reported' = [reported EXCEPT ![t] = @ \cup {<<"condition", t, reason>>}]

\* Exit as a return whose delay grows with the delay returned before.
ExitGrowing(t, after, err, exit) ==
    /\ pc' = [pc EXCEPT ![t] = "exit"]
    /\ ret' = [ret EXCEPT ![t] =
                 [RequeueAfter |-> after + ret[t].RequeueAfter, Err |-> err,
                  Exit |-> exit]]

\* return <result>, <err>: the invocation ends, the worker still holds it.
Exit(t, after, err, exit) ==
    /\ pc' = [pc EXCEPT ![t] = "exit"]
    /\ ret' = [ret EXCEPT ![t] = Result(after, err, exit)]

Fault ==
    /\ envSteps < MaxEnvSteps
    /\ envSteps' = envSteps + 1

\* ------------------------------------------------------------------- Init

\* The owner-reference lists a resource may start with: none, a controlling
\* parent, a parent whose controller flag is absent.
InitRefLists == {<<>>, <<AppRef(True)>>, <<AppRef(Nil)>>}

NoObject == [exists |-> FALSE, scaleTarget |-> NoTarget, triggers |-> <<>>]

\* The triggers of the traits: a resource-metric trigger and a valid cron
\* trigger on one, a cron trigger that ends after midnight on the other.
InitTriggers ==
    [t \in Traits |-> IF t = "t1" THEN <<CpuTrigger, ValidCron>> ELSE <<LateCron>>]

Init ==
    /\ \E l \in InitRefLists : ownerRefs = [r \in Resources |-> l]
    /\ workloadKind \in WorkloadKinds
    /\ children \in ChildLists
    /\ traitExists = Traits
    /\ specTarget = [t \in Traits |-> IF t = "t1" THEN NoTarget ELSE UserTarget]
    /\ triggers = InitTriggers
    /\ conditions = [t \in Traits |-> "none"]
    /\ scaledObject = [t \in Traits |-> NoObject]
    /\ pc = [t \in Traits |-> "idle"]
    /\ eventObj = [t \in Traits |-> "none"]
    /\ resources = [t \in Traits |-> <<>>]
    /\ read = [t \in Traits |-> NoRead]
    /\ idx = [t \in Traits |-> 0]
    /\ targetWorkloadSetFlag = [t \in Traits |-> FALSE]
    /\ scaler = [t \in Traits |-> NoTarget]
    /\ reported = [t \in Traits |-> {}]
    /\ ret = [t \in Traits |-> NoResult]
    /\ applied = [t \in Traits |-> [r \in Resources |-> 0]]
    /\ runs = 0
    /\ envSteps = 0

\* ---------------------------------------------------------------- actions

\* Lines 93-100: the worker takes the request of trait t (a watch event, or
\* the requeue its last result asked for) and reads the trait.
Get(t) ==
    /\ pc[t] = "idle"
    /\ Cardinality(InFlight) < MaxConcurrentReconciles
    /\ \/ /\ ret[t].RequeueAfter > 0
          /\ runs' = runs
       \/ /\ ret[t].RequeueAfter = 0
          /\ runs < MaxRuns
          /\ runs' = runs + 1
    /\ UNCHANGED <<eventObj, resources, read, idx, targetWorkloadSetFlag,
                   reported, applied>>
    /\ \/ /\ t \notin traitExists          \* IgnoreNotFound(err) = nil
          /\ Exit(t, ReconcileWaitSeconds, FALSE, "notfound")
          /\ UNCHANGED <<scaler, envSteps>>
       \/ /\ t \in traitExists
          /\ Fault
          /\ Exit(t, ReconcileWaitSeconds, TRUE, "get")
          /\ UNCHANGED scaler
       \/ /\ t \in traitExists
          /\ pc' = [pc EXCEPT ![t] = "got"]
          /\ ret' = ret
          /\ scaler' = [scaler EXCEPT ![t] = specTarget[t]]
          /\ UNCHANGED envSteps
    /\ UNCHANGED store

\* The ApplicationConfiguration that owns a trait, "none" for a trait without.
ParentAppConfig(t) == IF t = "t1" THEN "app" ELSE "none"

\* Lines 103-114: the object events go to, the trait itself without a parent.
LocateParentAppConfig(t) ==
    /\ pc[t] = "got"
    /\ \/ /\ Fault
          /\ PatchCondition(t, "ErrLocateAppConfig")
          /\ Exit(t, ReconcileWaitSeconds, FALSE, "locate")
          /\ UNCHANGED eventObj
       \/ /\ eventObj' = [eventObj EXCEPT ![t] =
                           IF ParentAppConfig(t) = "none" THEN t
                           ELSE ParentAppConfig(t)]
          /\ pc' = [pc EXCEPT ![t] = "located"]
          /\ UNCHANGED <<conditions, reported, ret, envSteps>>
    /\ UNCHANGED <<ownerRefs, workloadKind, triggers, children, traitExists, specTarget,
                   scaledObject, resources, read, idx, targetWorkloadSetFlag,
                   scaler, runs, applied>>

\* Lines 116-134: the workload is read from the store.
FetchWorkload(t) ==
    /\ pc[t] = "located"
    /\ \/ /\ Fault
          /\ conditions' = [conditions EXCEPT ![t] = "ReconcileError"]
          /\ reported' = [reported EXCEPT ![t] =
                            @ \cup {Event(t, "ErrLocatingWorkload"),
                                    <<"condition", t, "ErrLocatingWorkload">>}]
          /\ Exit(t, ReconcileWaitSeconds, FALSE, "workload")
          /\ UNCHANGED read
       \/ /\ read' = [read EXCEPT ![t][Workload] = ownerRefs[Workload]]
          /\ pc' = [pc EXCEPT ![t] = "fetched"]
          /\ UNCHANGED <<conditions, reported, ret, envSteps>>
    /\ UNCHANGED <<ownerRefs, workloadKind, triggers, children, traitExists, specTarget,
                   scaledObject, eventObj, resources, idx,
                   targetWorkloadSetFlag, scaler, runs, applied>>

\* Lines 136-146: the child resources are read, the workload is appended.
FetchWorkloadChildResources(t) ==
    /\ pc[t] = "fetched"
    /\ \/ /\ Fault
          /\ conditions' = [conditions EXCEPT ![t] = "ReconcileError"]
          /\ reported' = [reported EXCEPT ![t] =
                            @ \cup {Event(eventObj[t], "ErrFetchChildResources"),
                                    <<"condition", t, "ErrFetchChildResources">>}]
          /\ Exit(t, ReconcileWaitSeconds, FALSE, "children")
          /\ UNCHANGED <<resources, read, idx>>
       \/ /\ resources' = [resources EXCEPT ![t] = Append(children, Workload)]
          /\ read' = [read EXCEPT ![t] =
                        [r \in Resources |->
                           IF r \in Range(children) THEN ownerRefs[r] ELSE @[r]]]
          /\ idx' = [idx EXCEPT ![t] = 1]
          /\ pc' = [pc EXCEPT ![t] = "loop"]
          /\ UNCHANGED <<conditions, reported, ret, envSteps>>
    /\ UNCHANGED <<ownerRefs, workloadKind, triggers, children, traitExists, specTarget,
                   scaledObject, eventObj, targetWorkloadSetFlag, scaler,
                   runs, applied>>

\* Lines 147-171: one iteration of the loop, over resources[idx].
AdoptResource(t) ==
    /\ pc[t] = "loop"
    /\ LET res  == resources[t][idx[t]]
           refs == read[t][res]
       IN  \/ /\ Panics(refs)              \* line 151: nil dereference
              /\ pc' = [pc EXCEPT ![t] = "panic"]
              /\ UNCHANGED <<ownerRefs, conditions, reported, ret, envSteps, idx,
                             targetWorkloadSetFlag, scaler, applied>>
           \/ /\ ~Panics(refs)             \* line 157: the patch fails
              /\ Fault
              /\ PatchCondition(t, "Failed to set ownerReference for child resource")
              /\ Exit(t, ReconcileWaitSeconds, FALSE, "patch")
              /\ UNCHANGED <<ownerRefs, idx, targetWorkloadSetFlag, scaler,
                             applied>>
           \/ /\ ~Panics(refs)             \* line 157: the patch is applied
              /\ ownerRefs' = [ownerRefs EXCEPT ![res] =
                                 ApplyPatch(@, MergeFrom(refs, NewRefs(refs, t)))]
              /\ scaler' = [scaler EXCEPT ![t] = TargetAfter(t, res)]
              /\ targetWorkloadSetFlag' =
                     [targetWorkloadSetFlag EXCEPT ![t] = FlagAfter(t, res)]
              /\ idx' = [idx EXCEPT ![t] = @ + 1]
              /\ applied' = [applied EXCEPT ![t][res] = @ + 1]
              /\ pc' = [pc EXCEPT ![t] =
                          IF LoopDone(t) THEN "scale" ELSE "loop"]
              /\ UNCHANGED <<conditions, reported, ret, envSteps>>
    /\ UNCHANGED <<workloadKind, triggers, children, traitExists, specTarget,
                   scaledObject, eventObj, resources, read, runs>>

\* The warnings scaleByKEDA records for the triggers of the trait.
TriggerEvents(t) ==
    {Event(t, w) : w \in UNION {TriggerWarnings(triggers[t][k]) :
                                    k \in 1..Len(triggers[t])}}

\* scaleByKEDA with no target workload set: the warning of line 64 is
\* recorded, no backend object is written, the reconcile goes on.
KedaTargetNotSet(t) ==
    /\ reported' = [reported EXCEPT ![t] =
                      @ \cup {Event(t, SpecWarningTargetWorkloadNotSet)}
                        \cup TriggerEvents(t)]
    /\ UNCHANGED <<scaledObject, conditions>>

\* scaleByKEDA upserts the one backend object of the trait, its scale target
\* the target workload it was handed, its triggers those that are valid.
KedaUpsert(t, target) ==
    /\ scaledObject' = [scaledObject EXCEPT ![t] =
                          [exists |-> TRUE, scaleTarget |-> target,
                           triggers |-> Validated(triggers[t])]]
    /\ reported' = [reported EXCEPT ![t] =
                      @ \cup {<<"delegated", t, "ScaledObject">>}
                        \cup TriggerEvents(t)]
    /\ UNCHANGED conditions

\* scaleByKEDA fails to write the backend object: the condition is recorded.
KedaWriteFails(t) ==
    /\ conditions' = [conditions EXCEPT ![t] = "ReconcileError"]
    /\ reported' = [reported EXCEPT ![t] =
                      @ \cup {<<"condition", t, "ErrScaleByKEDA">>}
                        \cup TriggerEvents(t)]
    /\ UNCHANGED scaledObject

\* Lines 173-187: the default target, then scaleByKEDA(scaler, namespace, log)
\* on the in-memory scaler.
ResolveAndScale(t) ==
    /\ pc[t] = "scale"
    /\ scaler' = [scaler EXCEPT ![t] = DefaultTarget(t)]
    /\ \/ /\ DefaultTarget(t) # NoTarget
          /\ Fault
          /\ KedaWriteFails(t)
          /\ Exit(t, ReconcileWaitSeconds, TRUE, "keda")
       \/ /\ DefaultTarget(t) # NoTarget
          /\ KedaUpsert(t, DefaultTarget(t))
          /\ Exit(t, 0, FALSE, "ok")
          /\ UNCHANGED envSteps
       \/ /\ DefaultTarget(t) = NoTarget
          /\ KedaTargetNotSet(t)
          /\ Exit(t, 0, FALSE, "ok")
          /\ UNCHANGED envSteps
    /\ UNCHANGED <<ownerRefs, workloadKind, triggers, children, traitExists, specTarget,
                   eventObj, resources, read, idx, targetWorkloadSetFlag, runs, applied>>

\* The invocation has returned: the worker is free again.
Return(t) ==
    /\ pc[t] = "exit"
    /\ pc' = [pc EXCEPT ![t] = "idle"]
    /\ eventObj' = [eventObj EXCEPT ![t] = "none"]
    /\ resources' = [resources EXCEPT ![t] = <<>>]
    /\ read' = [read EXCEPT ![t] = NoRead]
    /\ idx' = [idx EXCEPT ![t] = 0]
    /\ targetWorkloadSetFlag' = [targetWorkloadSetFlag EXCEPT ![t] = FALSE]
    /\ scaler' = [scaler EXCEPT ![t] = NoTarget]
    /\ reported' = [reported EXCEPT ![t] = {}]
    /\ ret' = [ret EXCEPT ![t].Exit = "none"]
    /\ UNCHANGED <<store, applied, runs, envSteps>>

\* The reference another client of the store adds to a resource.
OtherRef == OwnerRef("v1", "ConfigMap", "other", "uid-other", False, False)

\* The resources other clients write: the workload and one of its children.
ExternalTargets == {Workload, "c1"}

\* Another client of the store changes the owner references of a resource.
ExternalWrite(r) ==
    /\ envSteps < MaxEnvSteps
    /\ envSteps' = envSteps + 1
    /\ ownerRefs' = [ownerRefs EXCEPT ![r] = Append(@, OtherRef)]
    /\ UNCHANGED <<workloadKind, triggers, children, traitExists, specTarget, conditions,
                   scaledObject, pc, locals, ret, runs, applied>>

\* The workload gets another list of child resources: a child appears or
\* goes, the order of the discovery shifts.
ChildrenChange ==
    /\ envSteps < MaxEnvSteps
    /\ envSteps' = envSteps + 1
    /\ \E l \in ChildLists \ {children} : children' = l
    /\ UNCHANGED <<ownerRefs, workloadKind, triggers, traitExists, specTarget, conditions,
                   scaledObject, pc, locals, ret, runs, applied>>

\* The user deletes a trait that no invocation holds.
DeleteTrait(t) ==
    /\ t \in traitExists
    /\ pc[t] = "idle"
    /\ envSteps < MaxEnvSteps
    /\ envSteps' = envSteps + 1
    /\ traitExists' = traitExists \ {t}
    /\ UNCHANGED <<ownerRefs, workloadKind, triggers, children, specTarget, conditions,
                   scaledObject, pc, locals, ret, runs, applied>>

Reconcile(t) ==
    \/ Get(t)
    \/ LocateParentAppConfig(t)
    \/ FetchWorkload(t)
    \/ FetchWorkloadChildResources(t)
    \/ AdoptResource(t)
    \/ ResolveAndScale(t)
    \/ Return(t)

Next ==
    \/ \E t \in Traits : Reconcile(t)
    \/ \E r \in ExternalTargets : ExternalWrite(r)
    \/ ChildrenChange
    \/ \E t \in Traits : DeleteTrait(t)

Spec == Init /\ [][Next]_vars

\* The store with the one trait t1, whose first trigger is any cron trigger
\* a user may write, on a workload without child resources.
CronInit ==
    /\ \E l \in InitRefLists \ {<<AppRef(True)>>} :
          ownerRefs = [r \in Resources |-> l]
    /\ workloadKind = "Deployment"
    /\ children = <<>>
    /\ traitExists = {"t1"}
    /\ specTarget = [t \in Traits |-> IF t = "t1" THEN NoTarget ELSE UserTarget]
    /\ \E a \in StartAts, d \in Durations, n \in ReplicaCounts :
          triggers = [InitTriggers EXCEPT
                        !["t1"] = <<CronTrigger(a, d, n), CpuTrigger>>]
    /\ conditions = [t \in Traits |-> "none"]
    /\ scaledObject = [t \in Traits |-> NoObject]
    /\ pc = [t \in Traits |-> "idle"]
    /\ eventObj = [t \in Traits |-> "none"]
    /\ resources = [t \in Traits |-> <<>>]
    /\ read = [t \in Traits |-> NoRead]
    /\ idx = [t \in Traits |-> 0]
    /\ targetWorkloadSetFlag = [t \in Traits |-> FALSE]
    /\ scaler = [t \in Traits |-> NoTarget]
    /\ reported = [t \in Traits |-> {}]
    /\ ret = [t \in Traits |-> NoResult]
    /\ applied = [t \in Traits |-> [r \in Resources |-> 0]]
    /\ runs = 0
    /\ envSteps = 0

CronSpec == CronInit /\ [][Next]_vars

\* The steps of an invocation after the worker has taken it.
Proceed(t) ==
    \/ LocateParentAppConfig(t)
    \/ FetchWorkload(t)
    \/ FetchWorkloadChildResources(t)
    \/ AdoptResource(t)
    \/ ResolveAndScale(t)
    \/ Return(t)

\* The worker runs the invocation it has taken to its return, and the work
\* queue hands it every request in the end, however often it is busy with
\* another trait.
LiveSpec ==
    /\ Spec
    /\ \A t \in Traits : WF_vars(Proceed(t)) /\ SF_vars(Get(t))

\* ----------------------------------------------------------------- claims

Succeeded(t) == pc[t] = "exit" /\ ret[t].Exit = "ok"

Controllers(refs) == {k \in 1..Len(refs) : refs[k].Controller = True}

NamesTrait(ref, t) ==
    /\ ref.APIVersion = "standard.oam.dev/v1alpha1"
    /\ ref.Kind = "Autoscaler"
    /\ ref.Name = t
    /\ ref.UID = TraitUID(t)

\* The one controller reference of the list names trait t and blocks the
\* deletion of the owner.
SoleController(refs, t) ==
    /\ Cardinality(Controllers(refs)) = 1
    /\ \A k \in Controllers(refs) :
          NamesTrait(refs[k], t) /\ refs[k].BlockOwnerDeletion = True

\* C1: when an invocation for trait t has completed successfully, every
\* resource it fetched (the children and the workload) carries exactly one
\* owner reference with controller=true, which names t and has
\* blockOwnerDeletion=true; after the first and after any later success.
C1_SuccessfulReconcileAdopts ==
    \A t \in Traits :
        Succeeded(t) =>
            \A r \in Range(resources[t]) : SoleController(ownerRefs[r], t)

\* A second success of t1 on two resources, one of which still carries its
\* former controller, demoted.
C1_Witness ==
    /\ Succeeded("t1")
    /\ Len(resources["t1"]) >= 2
    /\ \E r \in Range(resources["t1"]) :
          /\ \E k \in 1..Len(ownerRefs[r]) : ownerRefs[r][k] = AppRef(False)
          /\ Cardinality({k \in 1..Len(ownerRefs[r]) :
                             NamesTrait(ownerRefs[r][k], "t1")}) = 2

\* C10: no resource ever carries two owner references with controller=true,
\* in any state: between the patches of an invocation, after an invocation
\* that was aborted, and when invocations of the two traits follow each other.
C10_AtMostOneController ==
    \A r \in Resources : Cardinality(Controllers(ownerRefs[r])) <= 1

\* t2 is between two patches, after an invocation of t1 that was aborted: a
\* resource carries the references of both traits and its former controller.
C10_Witness ==
    /\ pc["t2"] = "loop"
    /\ idx["t2"] = 2
    /\ ret["t1"].RequeueAfter = ReconcileWaitSeconds
    /\ \E r \in Resources :
          /\ \E k \in 1..Len(ownerRefs[r]) : ownerRefs[r][k] = AppRef(False)
          /\ \E k \in 1..Len(ownerRefs[r]) : NamesTrait(ownerRefs[r][k], "t1")
          /\ \E k \in 1..Len(ownerRefs[r]) :
                NamesTrait(ownerRefs[r][k], "t2") /\ ownerRefs[r][k].Controller = True

\* The step is the successful patch of resources[idx] by the invocation of t.
Patched(t) == pc[t] = "loop" /\ idx'[t] = idx[t] + 1

\* C2: when the last invocation of a trait succeeded, a patch by its next
\* invocation of a resource whose stored list is the one the trait's patch
\* left (it ends in the trait's controller reference, and nobody wrote it
\* since it was read) changes nothing: the second reconcile of unchanged
\* inputs sends an empty patch.
C2_SecondPatchIsEmpty ==
    [][\A t \in Traits :
          Patched(t) =>
             LET res == resources[t][idx[t]]
             IN  (/\ ret[t].RequeueAfter = 0
                  /\ ~ret[t].Err
                  /\ read[t][res] = ownerRefs[res]
                  /\ read[t][res] # <<>>
                  /\ read[t][res][Len(read[t][res])] = ownerReference(t))
                 => ownerRefs'[res] = ownerRefs[res]]_vars

\* The first of the first n resources of l that is scalable, 0 for none.
FirstScalable(l, n) ==
    LET S == {k \in 1..n : Scalable(l[k])}
    IN  IF S = {} THEN 0 ELSE CHOOSE k \in S : \A j \in S : k <= j

\* C3: after a successful invocation over a list in which no child is
\* scalable (no child at all, or only children of other kinds), the target
\* workload of the trait is the workload.
C3_NoScalableChildTargetsWorkload ==
    \A t \in Traits :
        (/\ Succeeded(t)
         /\ \A k \in 1..(Len(resources[t]) - 1) : ~Scalable(resources[t][k]))
        => scaler[t] = [APIVersion |-> APIVersionOf(workloadKind),
                        Kind |-> workloadKind, Name |-> Workload]

\* C4: as soon as the loop has passed a scalable resource, and until the
\* invocation returns, the target workload is the first scalable resource in
\* the order of the list (children in discovery order, the workload last):
\* no later scalable resource replaces it.
C4_FirstMatchWins ==
    \A t \in Traits :
        (pc[t] \in {"loop", "scale", "exit"} /\ resources[t] # <<>>) =>
            LET f == FirstScalable(resources[t], idx[t] - 1)
            IN  f # 0 =>
                  scaler[t] = [APIVersion |-> "apps/v1",
                               Kind |-> GetKind(resources[t][f]),
                               Name |-> resources[t][f]]

\* A success over two scalable children and a scalable workload: the child
\* discovered first is the target.
C4_Witness ==
    \E t \in Traits :
        /\ Succeeded(t)
        /\ resources[t] = <<"c2", "c1", Workload>>
        /\ workloadKind = "Deployment"
        /\ scaler[t].Name = "c2"

Resolved(l, stored) ==
    LET f == FirstScalable(l, Len(l))
    IN  IF f # 0 THEN TargetOf(l[f])
        ELSE IF Len(l) = 1 THEN TargetOf(Workload)
        ELSE stored

C6_EveryFailureReported ==
    \A t \in Traits :
        (pc[t] = "exit" /\ ret[t].Exit \in
            {"get", "locate", "workload", "children", "patch", "keda"})
        => \E x \in reported[t] : x[1] \in {"condition", "event"}

IsPrefix(a, b) == Len(a) <= Len(b) /\ SubSeq(b, 1, Len(a)) = a

C9_StalePatchIsRejected ==
    [][\A t \in Traits :
          (pc[t] = "loop" /\ (pc'[t] # pc[t] \/ idx'[t] # idx[t])) =>
             LET res == resources[t][idx[t]]
             IN  (read[t][res] # ownerRefs[res] /\ ~Panics(read[t][res]))
                 => /\ ownerRefs'[res] = ownerRefs[res]
                    /\ pc'[t] = "exit"
                    /\ ret'[t].RequeueAfter = 30]_vars

\* The invocation of t was aborted by a failed patch.
Aborted(t) == pc[t] = "exit" /\ ret[t].Exit = "patch"

Adopted(t) ==
    /\ Succeeded(t)
    /\ \A r \in Range(resources[t]) : SoleController(ownerRefs[r], t)

\* C8: after an invocation aborted by a failed patch, the retries lead to a
\* state where every fetched resource has the trait as its one controller
\* and the backend object has been written (unless the trait is deleted or
\* the controller has died meanwhile).
C8_RetryConverges ==
    \A t \in Traits :
        Aborted(t) ~>
            \/ Adopted(t) /\ <<"delegated", t, "ScaledObject">> \in reported[t]
            \/ t \notin traitExists
            \/ \E u \in Traits : pc[u] = "panic"

\* The retries do lead to the adoption of every fetched resource; the backend
\* object is written unless no target was resolved.
RetryAdopts ==
    \A t \in Traits :
        Aborted(t) ~>
            \/ Adopted(t) /\ \/ <<"delegated", t, "ScaledObject">> \in reported[t]
                             \/ scaler[t] = NoTarget
            \/ t \notin traitExists
            \/ \E u \in Traits : pc[u] = "panic"

\* The two references name the same owner.
SameOwner(a, b) ==
    /\ a.APIVersion = b.APIVersion
    /\ a.Kind = b.Kind
    /\ a.Name = b.Name
    /\ a.UID = b.UID

\* Reference b is reference a, unchanged or demoted from controller.
KeptOrDemoted(a, b) ==
    /\ SameOwner(a, b)
    /\ b.BlockOwnerDeletion = a.BlockOwnerDeletion
    /\ \/ b.Controller = a.Controller
       \/ a.Controller = True /\ b.Controller = False

\* C11: a patch of a resource by an invocation removes no owner reference:
\* every reference the resource carries before the patch is on it after the
\* patch, with the same apiVersion, kind, name and UID, and changed at most
\* from controller=true to controller=false.
C11_NoReferenceRemoved ==
    [][\A t \in Traits :
          Patched(t) =>
             LET res == resources[t][idx[t]]
             IN  \A k \in 1..Len(ownerRefs[res]) :
                    \E j \in 1..Len(ownerRefs'[res]) :
                       KeptOrDemoted(ownerRefs[res][k], ownerRefs'[res][j])]_vars

\* What does hold: every reference the invocation read is on the resource
\* after the patch, at its position, unchanged or demoted.
PatchKeepsWhatWasRead ==
    [][\A t \in Traits :
          Patched(t) =>
             LET res == resources[t][idx[t]]
             IN  /\ Len(ownerRefs'[res]) = Len(read[t][res]) + 1
                 /\ \A k \in 1..Len(read[t][res]) :
                       KeptOrDemoted(read[t][res][k], ownerRefs'[res][k])]_vars

\* C12: no invocation stops in the middle of the loop on a nil pointer: every
\* invocation ends by returning a result to the controller.
C12_NoStageIsFatal ==
    \A t \in Traits : pc[t] # "panic"

C14_DeletedTraitEndsReconcile ==
    \A t \in Traits :
        (pc[t] = "exit" /\ t \notin traitExists) =>
            /\ ~ret[t].Err
            /\ reported[t] = {}
            /\ ret[t].RequeueAfter = 0

\* The hour a startAt stands for, -1 for one that is absent or is no HH:MM.
ExpectedStartHour(a) ==
    CASE a = <<"0", "9", ":", "0", "0">> -> 9
      [] a = <<"1", "2", ":", "0", "1">> -> 12
      [] OTHER -> -1

\* The hours a duration stands for, -1 for one that is absent or no number.
ExpectedDurationHour(d) ==
    CASE d = <<"2">> -> 2
      [] d = <<"1", "3">> -> 13
      [] d = <<"1", "4">> -> 14
      [] d = <<"1", "5">> -> 15
      [] OTHER -> -1

ExpectedAccepted(c) ==
    /\ ExpectedStartHour(c.StartAt) >= 0
    /\ ExpectedDurationHour(c.Duration) >= 0
    /\ c.Replicas > 0
    /\ ExpectedStartHour(c.StartAt) + ExpectedDurationHour(c.Duration) <= 23

ExpectedWarnings(c) ==
    {w \in {SpecWarningStartAtTimeRequired, SpecWarningStartAtTimeFormat,
            SpecWarningDurationTimeRequired,
            SpecWarningDurationTimeNotInRightFormat,
            SpecWarningReplicasRequired,
            SpecWarningSumOfStartAndDurationMoreThan24Hour} :
        \/ w = SpecWarningStartAtTimeRequired /\ c.StartAt = <<>>
        \/ /\ w = SpecWarningStartAtTimeFormat
           /\ c.StartAt # <<>>
           /\ ExpectedStartHour(c.StartAt) < 0
        \/ w = SpecWarningDurationTimeRequired /\ c.Duration = <<>>
        \/ /\ w = SpecWarningDurationTimeNotInRightFormat
           /\ c.Duration # <<>>
           /\ ExpectedDurationHour(c.Duration) < 0
        \/ w = SpecWarningReplicasRequired /\ c.Replicas = 0
        \/ /\ w = SpecWarningSumOfStartAndDurationMoreThan24Hour
           /\ ExpectedStartHour(c.StartAt) >= 0
           /\ ExpectedDurationHour(c.Duration) >= 0
           /\ ExpectedStartHour(c.StartAt) + ExpectedDurationHour(c.Duration) >= 24}

\* C15: when an invocation has delegated, a cron trigger of the trait is in
\* the backend object exactly when startAt, duration and replicas are
\* present, startAt is an HH:MM, duration a number of hours and the start
\* hour plus the duration is below 24; the warnings recorded for it are one
\* per failed check; the other triggers of the trait are delegated all the
\* same; and an invocation of a trait that exists, which met no failure of
\* the store or the backend, returns success whatever its triggers are.
C15_CronTriggerValidation ==
    \A t \in Traits :
        /\ (pc[t] = "exit" /\ <<"delegated", t, "ScaledObject">> \in reported[t]) =>
              /\ \A k \in 1..Len(triggers[t]) :
                    LET tr == triggers[t][k]
                    IN  IF tr.Type = "cron"
                        THEN /\ tr \in Range(scaledObject[t].triggers)
                                   <=> ExpectedAccepted(tr)
                             /\ ExpectedAccepted(tr) <=> ExpectedWarnings(tr) = {}
                             /\ \A w \in ExpectedWarnings(tr) :
                                   <<"event", t, w>> \in reported[t]
                        ELSE tr \in Range(scaledObject[t].triggers)
              /\ \A x \in reported[t] :
                    x[1] = "event" =>
                       \E k \in 1..Len(triggers[t]) :
                          /\ triggers[t][k].Type = "cron"
                          /\ x[3] \in ExpectedWarnings(triggers[t][k])
        /\ (pc[t] = "exit" /\ envSteps = 0 /\ t \in traitExists) =>
              /\ ret[t].RequeueAfter = 0
              /\ ~ret[t].Err
              /\ conditions[t] = "none"

\* A cron trigger from 09:00 for 14 hours has been delegated, with the
\* resource-metric trigger behind it.
C15_Witness ==
    /\ pc["t1"] = "exit"
    /\ <<"delegated", "t1", "ScaledObject">> \in reported["t1"]
    /\ scaledObject["t1"].triggers =
          <<CronTrigger(<<"0", "9", ":", "0", "0">>, <<"1", "4">>, 5), CpuTrigger>>

\* C16: the backend object of a trait is written only by the step that
\* follows the loop, when the loop has patched every fetched resource, the
\* workload last, and with the target resolved by then; a return with the
\* requeue from any earlier step has written no backend object.
C16_DelegationComesLast ==
    [][\A t \in Traits :
          /\ (\/ scaledObject'[t] # scaledObject[t]
              \/ /\ <<"delegated", t, "ScaledObject">> \in reported'[t]
                 /\ <<"delegated", t, "ScaledObject">> \notin reported[t])
             => /\ pc[t] = "scale"
                /\ resources[t] # <<>>
                /\ resources[t][Len(resources[t])] = Workload
                /\ idx[t] = Len(resources[t]) + 1
                /\ \A r \in Range(resources[t]) :
                      /\ ownerRefs[r] # <<>>
                      /\ LET n == Len(read[t][r])
                         IN  /\ Len(ownerRefs[r]) > n
                             /\ NamesTrait(ownerRefs[r][n + 1], t)
                /\ scaledObject'[t].scaleTarget = scaler'[t]
                /\ scaler'[t] # NoTarget
          /\ (pc[t] \in {"got", "located", "fetched", "loop"} /\ pc'[t] = "exit")
             => /\ scaledObject' = scaledObject
                /\ \A x \in reported'[t] : x[1] # "delegated"]_vars

\* An invocation has delegated after the patches of two children and the
\* workload.
C16_Witness ==
    \E t \in Traits :
        /\ pc[t] = "exit"
        /\ <<"delegated", t, "ScaledObject">> \in reported[t]
        /\ Len(resources[t]) = 3

\* Every step of the invocation succeeded: the trait was read, the loop has
\* passed every fetched resource, and the delegation recorded no failure.
Completed(t) ==
    /\ resources[t] # <<>>
    /\ idx[t] = Len(resources[t]) + 1
    /\ <<"condition", t, "ErrScaleByKEDA">> \notin reported[t]

\* C17: a returned result asks for no requeue exactly when every step of the
\* invocation through the delegation succeeded; every other return asks for
\* the requeue after 30 seconds, on the first attempt and on every retry.
C17_RequeueResult ==
    \A t \in Traits :
        /\ ret[t].RequeueAfter \in {0, 30}
        /\ pc[t] = "exit" =>
              /\ ret[t].RequeueAfter = 0 <=> Completed(t)
              /\ ~Completed(t) => ret[t].RequeueAfter = 30
              /\ ret[t].Err => ret[t].RequeueAfter = 30

\* An invocation that found its trait deleted has returned the requeue, on
\* its first attempt or on a retry.
C17_Witness ==
    \E t \in Traits :
        /\ pc[t] = "exit"
        /\ t \notin traitExists
        /\ ret[t].RequeueAfter = 30

\* C18: a step of an invocation of trait t changes no trigger list, no kind
\* and no child list of a resource, no owner-reference list of a resource
\* outside those t fetched, and nothing of another trait: not its target
\* workload, its condition, its backend object or its existence.
C18_ReconcileFrame ==
    [][\A t \in Traits :
          (pc'[t] # pc[t] \/ idx'[t] # idx[t]) =>
             /\ triggers' = triggers
             /\ workloadKind' = workloadKind
             /\ children' = children
             /\ traitExists' = traitExists
             /\ \A r \in Resources :
                   ownerRefs'[r] # ownerRefs[r] => r \in Range(resources[t])
             /\ \A u \in Traits \ {t} :
                   /\ specTarget'[u] = specTarget[u]
                   /\ conditions'[u] = conditions[u]
                   /\ scaledObject'[u] = scaledObject[u]
                   /\ applied'[u] = applied[u]]_vars

\* An invocation of t2 was aborted by a failed patch of the second resource
\* while t1 has its backend object and no condition.
C18_Witness ==
    /\ pc["t2"] = "exit"
    /\ ret["t2"].Exit = "patch"
    /\ idx["t2"] = 2
    /\ conditions["t1"] = "none"
    /\ scaledObject["t1"].exists

\* The positions of the references of a list that name trait t.
Naming(refs, t) == {k \in 1..Len(refs) : NamesTrait(refs[k], t)}

\* C19: a resource carries as many owner references naming a trait as
\* invocations of the trait have patched it (k after k successful
\* reconciles), all of them but the last appended with controller=false,
\* and the last with controller=true when nothing of another trait was
\* appended since.
C19_OneReferencePerPatch ==
    \A t \in Traits : \A r \in Resources :
        LET N == Naming(ownerRefs[r], t)
        IN  /\ Cardinality(N) = applied[t][r]
            /\ \A k \in N :
                  /\ (\E j \in N : j > k) => ownerRefs[r][k].Controller = False
                  /\ (\A u \in Traits \ {t} :
                        \A j \in Naming(ownerRefs[r], u) : j < k)
                     /\ (\A j \in N : j <= k)
                     => ownerRefs[r][k].Controller = True

\* Two successful reconciles of t1, with no other writer, on a workload that
\* had no owner reference.
C19_Witness ==
    /\ Succeeded("t1")
    /\ applied["t1"][Workload] = 2
    /\ ownerRefs[Workload] =
          <<[ownerReference("t1") EXCEPT !.Controller = False],
            ownerReference("t1")>>

\* C20: after a patch of a resource by an invocation of a trait, the one
\* controller reference of the resource names that trait, whichever trait
\* was the controller before, and every reference of the other trait that
\* was read is still there with controller=false.
C20_LastWriterControls ==
    [][\A t \in Traits :
          Patched(t) =>
             LET res == resources[t][idx[t]]
             IN  /\ SoleController(ownerRefs'[res], t)
                 /\ \A u \in Traits \ {t} :
                       \A k \in Naming(read[t][res], u) :
                          /\ NamesTrait(ownerRefs'[res][k], u)
                          /\ ownerRefs'[res][k].Controller = False]_vars

\* t2 has reconciled after t1: on the workload the reference of t1 is
\* demoted and the reference of t2 is the controller.
C20_Witness ==
    /\ Succeeded("t2")
    /\ ret["t1"].RequeueAfter = 0
    /\ \E k \in Naming(ownerRefs[Workload], "t1") :
          ownerRefs[Workload][k].Controller = False
    /\ SoleController(ownerRefs[Workload], "t2")

====
